---------------------------- MODULE Spec2Model ----------------------------
(***************************************************************************)
(* A model of the Zoho Creator and Zoho Inventory hooks and of the Creator *)
(* operator (src/plugins/hooks/zoho_creator.py,                            *)
(* src/plugins/hooks/zoho_inventory.py, src/plugins/operators/             *)
(* zoho_creator.py).                                                       *)
(*                                                                         *)
(* One caller runs one operation at a time (the code has no concurrency).  *)
(* Everything a server answers is an input drawn from a small set.  Time   *)
(* is counted in seconds since 2019-01-01 00:00:00, the datetime both      *)
(* hooks put in their empty token.  Python's None is the string "None".    *)
(***************************************************************************)
EXTENDS Integers, Sequences, FiniteSets, TLC

VARIABLES
    now,            \* datetime.utcnow()
    pc,             \* where the caller is: "idle" or a position in an operation
    outcome,        \* how the last finished operation ended
    events,         \* what the running (or last) operation did, in order
    token_c,        \* ZohoCreatorHook._token
    last_c,         \* the last ZohoCreatorHook.get_token call
    creator_hook,   \* ZohoCreatorOperator._creator_hook
    bulk,           \* the locals of download_bulk_data / download_workflow
    pag,            \* the locals of paginate
    ops,            \* how many operations the caller has started
    api,            \* the hook this session drives: "creator" or "inventory"
    token_i,        \* ZohoInventoryHook.token
    last_i,         \* the last ZohoInventoryHook.get_token call
    store,          \* the token the token store holds (the BigQuery export)
    call,           \* the running (or last) Inventory operation, its arguments
    req             \* the locals of make_request

vars == <<now, pc, outcome, events, token_c, last_c, creator_hook, bulk, pag,
          ops, api, token_i, last_i, store, call, req>>

creatorVars == <<token_c, last_c, creator_hook, bulk, pag>>
inventoryVars == <<token_i, last_i, store, call, req>>

None == "None"

----------------------------------------------------------------------------
(* Bounds of the model. *)

\* The clock at construction: any time later than one hour after 2019-01-01.
StartNow == 7200
\* The idle caller waits only while the clock is at most StartNow + Horizon.
Horizon == 3700
\* The caller starts at most MaxOps operations.
MaxOps == 2
\* The server answers at most MaxPolls status checks of one export with a
\* status other than Completed.
MaxPolls == 1
\* The server hands out at most MaxPages continuation cursors in one export.
MaxPages == 1
\* The server answers at most MaxViews requests of one paginate call with a
\* code other than 3100.
MaxViews == 2

\* The caller stays idle until the cached token is this far from the age at
\* which get_token stops returning it (line 41).
AroundC == {-30, 0, 1}
\* The same for the Inventory token and the margin before its expiry at which
\* get_token stops returning it (Inventory line 56).
AroundI == {-300, -1, 0}
\* How long a token request is in flight.
Latency == {0, 30}
\* Access tokens the OAuth server may issue.
AccessTokens == {"a1", "a2"}

----------------------------------------------------------------------------
(* Python's truth value of an optional string: None and "" are false. *)
Truthy(x) == x # None /\ x # ""

(* An event of the running operation.  Every event has the same fields:     *)
(* what happened, the job it is about, the record cursor passed or returned, *)
(* the status returned, the token in the Authorization header, the seconds   *)
(* slept, and what the request carried.                                      *)
Ev(ev, job, cursor, status, token, secs, request) ==
    [ev |-> ev, job |-> job, cursor |-> cursor, status |-> status,
     token |-> token, secs |-> secs, req |-> request]

NoReq == [verb |-> None, url |-> <<>>, params |-> {}]

(* The event of a download: that of Ev, and the table the file held. *)
DownloadEv(job, cursor, token, url, df) ==
    [ev |-> "download", job |-> job, cursor |-> cursor, status |-> None,
     token |-> token, secs |-> 0,
     req |-> [verb |-> "GET", url |-> url, params |-> {}], df |-> df]

----------------------------------------------------------------------------
(* ZohoCreatorHook: the token cache. *)

\* created_at of the empty token: datetime(2019, 1, 1, 0, 0, 0, 0).
InitCreatedAt == 0
\* get_token keeps a token for this many seconds.
CreatorTokenAge == 3600

InitTokenC == [token |-> None, created_at |-> InitCreatedAt]

\* Line 41: the cached token is returned when this holds.
CreatorTokenValidStrict(tok, t) == (t - tok.created_at) < CreatorTokenAge
CreatorTokenValid(tok, t) == (t - tok.created_at) <= CreatorTokenAge

\* get_token at time t, the OAuth server answering `access` after `lat`
\* seconds: the new cache, the time at the return, whether a request was sent.
CreatorGetToken(tok, t, access, lat) ==
    IF CreatorTokenValid(tok, t)
    THEN [token |-> tok, at |-> t, posted |-> FALSE]
    ELSE [token |-> [token |-> access, created_at |-> t + lat],
          at |-> t + lat, posted |-> TRUE]

\* What a get_token call leaves behind for the claims: the cache and the clock
\* it found, and what it did.
CallRecordC(tok, t, g) ==
    [called |-> TRUE, before |-> tok, at |-> t, posted |-> g.posted,
     returned |-> g.token, done_at |-> g.at]

NoCallC ==
    [called |-> FALSE, before |-> InitTokenC, at |-> 0, posted |-> FALSE,
     returned |-> InitTokenC, done_at |-> 0]


----------------------------------------------------------------------------
(* ZohoCreatorHook: the bulk read job (lines 62-126) and                   *)
(* ZohoCreatorOperator.download_bulk_data (operator lines 47-63).          *)

\* max_records of the bulk read query (line 69).
MaxRecords == 200000
\* Seconds download_workflow sleeps between two status checks (line 124).
PollSleep == 30

\* Record cursors and tables the server may return.
Cursors == {"c1", "c2"}
Dfs == {<<"r1">>, <<"r2", "r1">>}

\* Lines 69-71: the query of create_bulk_api_read_job.
BulkQueryAlways(cursor) ==
    {<<"max_records", MaxRecords>>, <<"record_cursor", cursor>>}
BulkQuery(cursor) ==
    IF Truthy(cursor)
    THEN {<<"max_records", MaxRecords>>, <<"record_cursor", cursor>>}
    ELSE {<<"max_records", MaxRecords>>}

\* Line 78: the job create_bulk_api_read_job returns.
Job(job_id, cursor) == [job_id |-> job_id, cursor |-> cursor]

\* What check_bulk_job may return: the values download_workflow reads from
\* it with status.get("details.status") and status.get("details.result").
\* A key that is missing reads as None.
Statuses == {None, "In-progress", "Failed", "Completed"}
NoResult == [present |-> FALSE, download_url |-> None, record_cursor |-> None]
Results ==
    {NoResult} \cup
    [present : {TRUE}, download_url : {"/dl"},
     record_cursor : {None, ""} \cup Cursors]
StatusResponses == [details_status : Statuses, details_result : Results]

\* Line 111: the loop of download_workflow goes on while this holds.
WhileStatus(status) == Truthy(status.details_status)
\* Line 113: the file is downloaded when this holds.
IsCompletedAny(status) == Truthy(status.details_status)
IsCompletedNever(status) == FALSE
IsCompleted(status) == status.details_status = "Completed"

\* Operator line 54: download_bulk_data goes on while this holds.
WhileCursor(cursor) == Truthy(cursor)

InitBulk ==
    [job |-> Job(0, None), cursor |-> None, download |-> 0,
     collector |-> <<>>,
     status |-> [details_status |-> None, details_result |-> NoResult], jobs |-> 0, polls |-> 0,
     pages |-> 0]

\* pandas drop_duplicates: the first of equal rows is kept, in order.
DropDuplicatesNone(rows) == rows
RECURSIVE DropDuplicates(_)
DropDuplicates(rows) ==
    IF rows = <<>> THEN <<>>
    ELSE LET front == DropDuplicates(SubSeq(rows, 1, Len(rows) - 1))
             r == rows[Len(rows)]
         IN IF \E i \in 1..Len(front) : front[i] = r
            THEN front ELSE Append(front, r)

----------------------------------------------------------------------------
(* ZohoCreatorHook.get_view (lines 140-148) and ZohoCreatorOperator.paginate *)
(* (operator lines 28-45).                                                   *)

\* limit of a get_view request (hook line 145).
ViewLimit == 200
\* status before the first request (operator line 30).
InitStatus == 3000
\* The code of a response without data (operator lines 32 and 36).
NoDataCode == 3100
\* What start grows by after a response (operator line 42).
StartStep == 200
\* time.sleep(3.5) (operator line 44), in tenths of a second; the clock of
\* the model counts whole seconds and moves on by the next whole number.
PaginateSleepTenths == 35

\* What the server may answer to get_view: data["code"] and data["data"].
ViewCodes == {InitStatus, NoDataCode}
ViewData == {<<"v1">>, <<"v2">>}
ViewResponses == [code : ViewCodes, data : ViewData]

\* Hook line 145: the params of the request.
ViewParams(start) == {<<"from", start>>, <<"limit", ViewLimit>>}

ViewEv(start, header_token, response) ==
    [ev |-> "view", start |-> start, token |-> header_token,
     params |-> ViewParams(start), code |-> response.code,
     data |-> response.data]
PauseEv(tenths) == [ev |-> "pause", tenths |-> tenths]

\* Operator line 32: paginate goes on while this holds.
WhileStatusCode(status) == status # NoDataCode
\* Operator line 36: paginate leaves the loop when this holds.
IsNoDataNever(code) == FALSE
IsNoData(code) == code = NoDataCode

\* Operator lines 29-31.
InitPag == [df |-> <<>>, status |-> InitStatus, start |-> 0, views |-> 0]

----------------------------------------------------------------------------
(* ZohoInventoryHook: the token cache (lines 43-70). *)

\* expires_at of the empty token: datetime(2019, 1, 1, 0, 0, 0, 0) (line 47).
InitExpiresAt == 0
\* get_token reloads a token that expires within this many seconds (line 56).
ExpiryMargin == 300

InitTokenI == [token |-> None, expires_at |-> InitExpiresAt]

\* Line 56: the cached token is returned when this holds.
InventoryTokenValidLoose(tok, t) == t + ExpiryMargin <= tok.expires_at
InventoryTokenValid(tok, t) == t + ExpiryMargin < tok.expires_at

\* get_token at time t with `stored` in the token store: the new cache and
\* whether the store was read (lines 55-67).
InventoryGetToken(tok, t, stored) ==
    IF InventoryTokenValid(tok, t)
    THEN [token |-> tok, loaded |-> FALSE]
    ELSE [token |-> stored, loaded |-> TRUE]

CallRecordI(tok, t, stored, g) ==
    [called |-> TRUE, before |-> tok, at |-> t, stored |-> stored,
     loaded |-> g.loaded, returned |-> g.token]

NoCallI ==
    [called |-> FALSE, before |-> InitTokenI, at |-> 0, stored |-> InitTokenI,
     loaded |-> FALSE, returned |-> InitTokenI]

\* Tokens the store may hold: their names, and how long after the start the
\* token it holds at the start expires (one has expired already, one expires
\* exactly ExpiryMargin seconds later), and how long after it is written a
\* token written later expires.
StoreTokens == {"s1", "s2"}
StoreLifetimes == {-60, 300, 3600}
FreshLifetimes == {3600}

----------------------------------------------------------------------------
(* ZohoInventoryHook: get_url, make_request, invoice (lines 72-211). *)

\* Line 44.
Endpoint == "https://inventory.zoho.eu/api/v1/"

\* Lines 28-39.
ZOHO_API_METHODS ==
    {"compositeitems", "creditnotes", "contacts", "inventoryadjustments",
     "itemdetails", "invoices", "items", "purchaseorders", "salesorders",
     "pricebooks"}

\* Lines 14-23: the invoice modes that require an id.
ENTITY_MODE_ID_REQ_invoice ==
    {"update", "get", "draft", "submit", "approve", "void", "sent", "delete"}

\* None where a url (a tuple of its parts) or params (a set of key and value
\* pairs) is expected.
NoneUrl == <<>>
NoneParams == {<<None>>}

\* Line 52-53.
GetParams(org_id) == {<<"organization_id", org_id>>}

\* str(x) of Python, kept apart from x.
Str(x) == <<"str", x>>

\* mode.upper() (line 136) on the verbs the callers pass.
Upper(mode) ==
    CASE mode = "get" -> "GET"
      [] mode = "put" -> "PUT"
      [] mode = "post" -> "POST"
      [] mode = "delete" -> "DELETE"
      [] OTHER -> <<"upper", mode>>

Url(raised, url) == [raised |-> raised, url |-> url]

\* The parameters get_url declares besides self (line 72).
GetUrlParameters == {"method", "uuid"}

\* The body of get_url (lines 73-94), which reads the name `unit`.
GetUrlBody(method, unit, uuid) ==
    IF unit # None THEN
        CASE method = "salesorder_lineitems" -> Url(None, <<Endpoint, "salesorders", uuid>>)
          [] method = "invoice_lineitems" -> Url(None, <<Endpoint, "invoices", uuid>>)
          [] method = "creditnote_lineitems" -> Url(None, <<Endpoint, "creditnotes", uuid>>)
          [] method = "contact_lineitems" -> Url(None, <<Endpoint, "contacts", uuid>>)
          [] method = "contact_persons" ->
                Url(None, <<Endpoint, "contacts", uuid, "contact_persons">>)
          [] method = "inventory_adjustments_lineitems" ->
                Url(None, <<Endpoint, "inventoryadjustments", uuid>>)
          [] method = "bundles" -> Url(None, <<Endpoint, "compositeitems", uuid>>)
          [] OTHER -> Url("ValueError", NoneUrl)
    ELSE IF method \in ZOHO_API_METHODS THEN Url(None, <<Endpoint, method>>)
    ELSE Url("ValueError", NoneUrl)

\* Line 119, self.get_url(method=method, unit=unit): the keywords of a call
\* must be parameters of the function called, or the call is a TypeError.
MakeRequestGetUrl(method, unit) ==
    IF {"method", "unit"} \subseteq GetUrlParameters
    THEN GetUrlBody(method, unit, unit)
    ELSE Url("TypeError", NoneUrl)

\* per_page of the standard pagination parameters (line 125).
PerPage == 200

\* Lines 121-130: the params of the request.
MakeRequestParams(org_id, page, unit, params) ==
    IF params = NoneParams /\ unit = None
    THEN {<<"organization_id", org_id>>, <<"page", page>>,
          <<"per_page", PerPage>>, <<"sort_column", "last_modified_time">>,
          <<"sort_order", "D">>}
    ELSE IF unit # None /\ params = NoneParams THEN GetParams(org_id)
    ELSE params

\* Line 133.
StreamState(mode, method) == mode = "get" /\ method = "image"

\* Body codes make_request takes for a token that was not accepted (line 150).
AuthCodes == {2, 57}

\* What the server may answer: whether the HTTP status is below 400 (what
\* raise_for_status looks at) and the code of the JSON body.
Responses == [http_ok : BOOLEAN, code : {0} \cup AuthCodes]

\* Lines 144-152: what make_request does with a response: return it, or
\* raise what raise_for_status raises.
HandleResponse(method, response) ==
    IF method \in {"get_pdf", "image"}
    THEN [raised |-> None, result |-> [kind |-> "response", response |-> response]]
    ELSE IF response.code \in AuthCodes /\ ~response.http_ok
    THEN [raised |-> "HTTPError", result |-> [kind |-> "none", response |-> response]]
    ELSE [raised |-> None, result |-> [kind |-> "data", response |-> response]]

\* The decorator of make_request (lines 96-100): tenacity's retry calls the
\* function again after every exception, whatever it is, waits WaitFixed
\* seconds before each new attempt and raises RetryError after the attempt
\* at which StopAfterAttempt holds.
WaitFixed == 300
MaxAttempts == 3
StopAfterAttemptLate(attempt) == attempt >= MaxAttempts + 1
StopAfterAttempt(attempt) == attempt >= MaxAttempts

Args(org_id, method, page, mode, unit, url, params) ==
    [org_id |-> org_id, method |-> method, page |-> page, mode |-> mode,
     unit |-> unit, url |-> url, params |-> params]

\* invoice (lines 154-211): the ValueError it raises, or the arguments of
\* its make_request call.
Built(raised, args) == [raised |-> raised, args |-> args]
NoArgs == Args(None, None, 1, None, None, NoneUrl, NoneParams)

\* Lines 183, 193, 197: the url of the modes that set a status.
InvoiceStatusUrlDraft(invoice_id, status) ==
    <<Endpoint, "invoices", invoice_id, "status", "draft">>
InvoiceStatusUrl(invoice_id, status) ==
    <<Endpoint, "invoices", invoice_id, "status", status>>

Invoice(org_id, invoice_id, updates, mode) ==
    LET params == GetParams(org_id)
        call_(verb, url, ps) ==
            Built(None, Args(org_id, "invoice", 1, verb, None, url, ps))
    IN
    IF mode \in ENTITY_MODE_ID_REQ_invoice /\ ~Truthy(invoice_id)
    THEN Built("ValueError", NoArgs)
    ELSE CASE mode = "update" ->
              call_("put", <<Endpoint, "invoices", invoice_id>>,
                    params \cup {<<"oauthscope", "ZohoInventory.invoices.UPDATE">>,
                                 <<"JSONString", Str(updates)>>})
           [] mode = "get" ->
              call_("get", <<Endpoint, "invoices", invoice_id>>,
                    params \cup {<<"oauthscope", "ZohoInventory.invoices.READ">>,
                                 <<"accept", "pdf">>})
           [] mode = "create" ->
              call_("post", <<Endpoint, "invoices">>,
                    params \cup {<<"oauthscope", "ZohoInventory.invoices.CREATE">>,
                                 <<"send", FALSE>>,
                                 <<"ignore_auto_number_generation", TRUE>>,
                                 <<"JSONString", Str(updates)>>})
           [] mode = "draft" ->
              call_("post", InvoiceStatusUrl(invoice_id, "draft"),
                    params \cup {<<"oauthscope", "ZohoInventory.invoices.CREATE">>})
           [] mode = "submit" ->
              call_("post", <<Endpoint, "invoices", invoice_id, "submit">>, params)
           [] mode = "approve" ->
              call_("post", <<Endpoint, "invoices", invoice_id, "approve">>, params)
           [] mode = "void" ->
              call_("post", InvoiceStatusUrl(invoice_id, "void"),
                    params \cup {<<"oauthscope", "ZohoInventory.invoices.CREATE">>})
           [] mode = "sent" ->
              call_("post", InvoiceStatusUrl(invoice_id, "sent"),
                    params \cup {<<"oauthscope", "ZohoInventory.invoices.CREATE">>})
           [] mode = "delete" ->
              call_("delete", <<Endpoint, "invoices", invoice_id>>,
                    params \cup {<<"oauthscope", "ZohoInventory.invoices.DELETE">>})
           [] OTHER -> Built("ValueError", NoArgs)

\* Line 24: the item modes that require an id.
ENTITY_MODE_ID_REQ_item == {"get", "delete", "update"}

\* Line 259: a mode that requires an id, and no id.
IdMissingNever(modes, mode, id) == FALSE
IdMissing(modes, mode, id) == mode \in modes /\ ~Truthy(id)

\* item (lines 249-285): the exception it raises, or the arguments of its
\* make_request call.  request_method is assigned in the branches of lines
\* 269-277 alone: where none is taken, line 281 reads a local that was never
\* assigned.
Item(org_id, mode, item, updates) ==
    LET params == GetParams(org_id) \cup {<<"JSONString", Str(updates)>>}
        call_(verb, url, scope) ==
            Built(None, Args(org_id, "item", 1, verb, None, url,
                             params \cup {<<"oauthscope", scope>>}))
    IN
    IF IdMissing(ENTITY_MODE_ID_REQ_item, mode, item)
    THEN Built("ValueError", NoArgs)
    ELSE IF mode = "create"
    THEN call_("post", <<Endpoint, "items">>, "ZohoInventory.items.CREATE")
    ELSE IF mode \in ENTITY_MODE_ID_REQ_item
    THEN IF mode = "get" /\ Truthy(item)
         THEN call_("get", <<Endpoint, "items", item>>, "ZohoInventory.items.READ")
         ELSE IF mode = "delete" /\ Truthy(item)
         THEN call_("delete", <<Endpoint, "items", item>>,
                    "ZohoInventory.items.DELETE")
         ELSE IF mode = "update" /\ Truthy(item)
         THEN call_("put", <<Endpoint, "items", item>>,
                    "ZohoInventory.items.UPDATE")
         ELSE Built("UnboundLocalError", NoArgs)
    ELSE Built("ValueError", NoArgs)

\* mode.lower() (lines 293 and 295) on the modes the callers pass.
Lower(mode) ==
    CASE mode = "Active" -> "active"
      [] mode = "INACTIVE" -> "inactive"
      [] OTHER -> mode

\* post_item_status (lines 287-311).  The mode may be None (Optional[str]),
\* and None has no method lower: AttributeError at line 293.
PostItemStatus(org_id, item_id, mode) ==
    LET call_(url) ==
            Built(None, Args(org_id, "post_item_status", 1, "post", None, url,
                             GetParams(org_id) \cup
                                 {<<"oauthscope", "ZohoInventory.items.UPDATE">>}))
    IN
    IF mode = None THEN Built("AttributeError", NoArgs)
    ELSE IF Lower(mode) = "active"
    THEN call_(<<Endpoint, "items", item_id, "active">>)
    ELSE IF Lower(mode) = "inactive"
    THEN call_(<<Endpoint, "items", item_id, "inactive">>)
    ELSE Built("ValueError", NoArgs)

\* get_pdf (lines 355-373).
GetPdf(org_id, record_id, method) ==
    LET call_(url) ==
            Built(None, Args(org_id, "get_pdf", 1, "get", None, url,
                             GetParams(org_id) \cup
                                 {<<"oauthscope", "ZohoInventory.invoices.READ">>,
                                  <<"accept", "pdf">>}))
    IN
    IF method = "invoice" THEN call_(<<Endpoint, "invoices", record_id>>)
    ELSE IF method = "creditnote" THEN call_(<<Endpoint, "creditnotes", record_id>>)
    ELSE Built("ValueError", NoArgs)

\* The arguments the callers of this model pass.
ItemIds == {None, "it1"}
ItemModes == ENTITY_MODE_ID_REQ_item \cup {"create", "refund"}
StatusModes == {"Active", "inactive", "archived", None}
PdfMethods == {"invoice", "creditnote", None}
OrgIds == {"org1"}
InvoiceIds == {None, "inv1"}
InvoiceModes == ENTITY_MODE_ID_REQ_invoice \cup {"create", "refund"}
Updates == {"upd"}
Pages == {1, 2}
DirectCalls ==
    {Args(o, m, p, "get", None, NoneUrl, NoneParams) :
        o \in OrgIds, m \in {"invoices", "items", "orders"}, p \in Pages}
    \cup {Args(o, "invoice_lineitems", 1, "get", "inv1", NoneUrl, NoneParams) : o \in OrgIds}
    \cup {Args(o, "get_item", 1, "get", None, <<Endpoint, "items", "it1">>,
               GetParams(o)) : o \in OrgIds}
    \cup {Args(o, "image", 1, "get", None, <<Endpoint, "items", "it1", "image">>,
               GetParams(o)) : o \in OrgIds}

NoCall == [op |-> None, args |-> NoArgs, org_id |-> None, mode |-> None,
           invoice_id |-> None, updates |-> None]
NoResponse == [kind |-> "none", response |-> [http_ok |-> TRUE, code |-> 0]]
NoRequest == [args |-> NoArgs, attempt |-> 0, result |-> NoResponse]

AttemptEv(n) == [ev |-> "attempt", n |-> n]
RequestEv(n, header_token, verb, url, params, stream) ==
    [ev |-> "request", n |-> n, token |-> header_token,
     req |-> [verb |-> verb, url |-> url, params |-> params, stream |-> stream]]
RaiseEv(n, what) == [ev |-> "raise", n |-> n, what |-> what]
SleepEv(secs) == [ev |-> "sleep", secs |-> secs]

----------------------------------------------------------------------------
Init ==
    /\ now = StartNow
    /\ pc = "idle"
    /\ outcome = "none"
    /\ events = <<>>
    /\ token_c = InitTokenC
    /\ last_c = NoCallC
    /\ api \in {"creator", "inventory"}
    /\ creator_hook \in IF api = "creator" THEN {None, "hook"} ELSE {None}
    /\ bulk = InitBulk
    /\ pag = InitPag
    /\ ops = 0
    /\ token_i = InitTokenI
    /\ last_i = NoCallI
    /\ store \in [token : {"s1"},
                  expires_at : IF api = "inventory"
                               THEN {StartNow + d : d \in StoreLifetimes}
                               ELSE {StartNow}]
    /\ call = NoCall
    /\ req = NoRequest

\* The instants the idle caller may wake up at: the clock is read by the
\* get_token comparisons alone, so the instants are those around their
\* thresholds.
TickTargets ==
    IF api = "creator"
    THEN {token_c.created_at + CreatorTokenAge + d : d \in AroundC}
    ELSE {token_i.expires_at - ExpiryMargin + d : d \in AroundI}

\* Time passes while the caller is idle.
Tick ==
    /\ pc = "idle"
    /\ ops < MaxOps
    /\ \E t \in TickTargets :
        /\ t > now
        /\ t <= StartNow + Horizon
        /\ now' = t
    \* the record of the operation that ended is dropped
    /\ outcome' = "none"
    /\ events' = <<>>
    /\ bulk' = InitBulk
    /\ pag' = InitPag
    /\ call' = NoCall
    /\ req' = NoRequest
    /\ last_c' = NoCallC
    /\ last_i' = NoCallI
    /\ UNCHANGED <<pc, ops, api, token_c, creator_hook, token_i, store>>

\* A caller calls ZohoCreatorHook.get_token() directly.
CallCreatorGetToken ==
    /\ pc = "idle"
    /\ api = "creator"
    /\ ops < MaxOps
    /\ ops' = ops + 1
    /\ UNCHANGED <<api, pag, inventoryVars>>
    /\ \E access \in AccessTokens, lat \in Latency :
        LET g == CreatorGetToken(token_c, now, access, lat) IN
        /\ token_c' = g.token
        /\ now' = g.at
        /\ last_c' = CallRecordC(token_c, now, g)
    /\ outcome' = "returned"
    /\ events' = <<>>
    /\ UNCHANGED <<pc, creator_hook, bulk>>


----------------------------------------------------------------------------
(* The steps of download_bulk_data and of the download_workflow it calls. *)

\* An uncaught exception ends the operation.
Raise(what) ==
    /\ pc' = "idle"
    /\ outcome' = what

\* get_headers of the Creator hook (lines 58-60): get_token, then the header.
HeadersCNoRefresh(access, lat) ==
    [token |-> token_c, at |-> now, posted |-> FALSE]
HeadersC(access, lat) == CreatorGetToken(token_c, now, access, lat)

\* create_bulk_api_read_job(cursor) (lines 62-78), the server answering with a
\* job id: the event of the POST, and the job.
CreateEvent(g, job_id, cursor) ==
    Ev("create", job_id, cursor, None, g.token.token, 0,
       [verb |-> "POST", url |-> <<"bulk", "read">>, params |-> BulkQuery(cursor)])

\* Operator lines 48-52: the hook, the first job, the locals.  The property
\* creator_hook (operator lines 22-26) builds ZohoCreatorHook() without the
\* conn_id its __init__ requires when no hook is set: TypeError.  The
\* scheduler executes the operator once, on the hook the operator holds:
\* download_bulk_data is the first operation of the session.
BulkBegin ==
    /\ pc = "idle"
    /\ api = "creator"
    /\ ops = 0
    /\ ops < MaxOps
    /\ ops' = ops + 1
    /\ UNCHANGED <<api, pag, inventoryVars>>
    /\ IF creator_hook = None
       THEN /\ Raise("TypeError")
            /\ events' = <<>>
            /\ bulk' = InitBulk
            /\ UNCHANGED <<now, token_c, last_c, creator_hook>>
       ELSE \E access \in AccessTokens, lat \in Latency, ok \in BOOLEAN :
            LET g == HeadersC(access, lat) IN
            /\ token_c' = g.token
            /\ now' = g.at
            /\ last_c' = CallRecordC(token_c, now, g)
            /\ events' = <<CreateEvent(g, 1, None)>>
            /\ IF ok
               THEN /\ bulk' = [InitBulk EXCEPT !.job = Job(1, None),
                                     !.jobs = 1, !.download = 1,
                                     !.cursor = "init"]
                    /\ pc' = "bulk_loop"
                    /\ UNCHANGED outcome
               ELSE \* line 75: raise_for_status
                    /\ bulk' = InitBulk
                    /\ Raise("HTTPError")
            /\ UNCHANGED creator_hook

\* Operator lines 54 and 63: the test of the loop, and the return.
BulkLoop ==
    /\ pc = "bulk_loop"
    /\ UNCHANGED <<ops, api, pag, inventoryVars>>
    /\ IF WhileCursor(bulk.cursor)
       THEN /\ pc' = "wf_check"
            /\ UNCHANGED <<outcome, bulk>>
       ELSE /\ pc' = "idle"
            /\ outcome' = "returned"
            /\ bulk' = [bulk EXCEPT !.collector = DropDuplicates(@)]
    /\ UNCHANGED <<now, events, token_c, last_c, creator_hook>>

\* check_bulk_job(job) (lines 80-89), called at lines 109 and 125.  The call
\* either hands the server's answer to download_workflow or ends in an
\* exception nothing catches: line 87 calls get_headers with an argument,
\* which get_headers (line 58) does not take.
WfCheck ==
    /\ pc = "wf_check"
    /\ UNCHANGED <<ops, api, pag, inventoryVars>>
    /\ \/ /\ Raise("TypeError")
          /\ UNCHANGED <<now, events, token_c, last_c, bulk>>
       \/ \E access \in AccessTokens, lat \in Latency, r \in StatusResponses :
            LET g == HeadersC(access, lat) IN
            /\ r.details_status = "Completed"
                   \/ r.details_result.record_cursor = None
            /\ r.details_status \in {"In-progress", "Failed"}
                   => bulk.polls < MaxPolls
            /\ Truthy(r.details_result.record_cursor)
                   => bulk.pages < MaxPages
            /\ token_c' = g.token
            /\ now' = g.at
            /\ last_c' = CallRecordC(token_c, now, g)
            /\ events' = Append(events,
                   Ev("check", bulk.job.job_id, bulk.job.cursor,
                      r.details_status, g.token.token, 0,
                      [verb |-> "GET", url |-> <<"bulk", "read", bulk.job.job_id>>,
                       params |-> {}]))
            /\ bulk' = [bulk EXCEPT !.status = r,
                          !.polls = IF r.details_status \in {"In-progress", "Failed"}
                                    THEN @ + 1 ELSE @]
            /\ pc' = "wf_while"
            /\ UNCHANGED outcome
    /\ UNCHANGED creator_hook

\* Lines 111-124 of download_workflow: the test of the loop, the test for
\* Completed, the sleep.  When the loop is not entered download_workflow
\* returns None, and operator line 57 calls data.get on it: AttributeError.
WfWhile ==
    /\ pc = "wf_while"
    /\ UNCHANGED <<ops, api, pag, inventoryVars>>
    /\ IF ~WhileStatus(bulk.status)
       THEN /\ Raise("AttributeError")
            /\ UNCHANGED <<now, events>>
       ELSE IF IsCompleted(bulk.status)
       THEN /\ pc' = "wf_download"
            /\ UNCHANGED <<now, events, outcome>>
       ELSE /\ now' = now + PollSleep
            /\ events' = Append(events,
                   Ev("sleep", bulk.job.job_id, None, None, None, PollSleep, NoReq))
            /\ pc' = "wf_check"
            /\ UNCHANGED outcome
    /\ UNCHANGED <<token_c, last_c, creator_hook, bulk>>

\* Lines 115-122 of download_workflow and operator lines 57-58: the result of
\* the status, download_data (lines 91-102), the table, the cursor.
WfDownload ==
    /\ pc = "wf_download"
    /\ UNCHANGED <<ops, api, pag, inventoryVars>>
    /\ IF ~bulk.status.details_result.present
       THEN \* line 117: result.get on None
            /\ Raise("AttributeError")
            /\ UNCHANGED <<now, events, token_c, last_c, bulk>>
       ELSE \E access \in AccessTokens, lat \in Latency, ok \in BOOLEAN, df \in Dfs :
            LET g == HeadersC(access, lat)
                result == bulk.status.details_result
            IN
            /\ token_c' = g.token
            /\ now' = g.at
            /\ last_c' = CallRecordC(token_c, now, g)
            /\ events' = Append(events,
                   DownloadEv(bulk.job.job_id, result.record_cursor,
                              g.token.token, <<result.download_url>>, df))
            /\ IF ok
               THEN /\ bulk' = [bulk EXCEPT !.collector = @ \o df,
                                     !.cursor = result.record_cursor,
                                     !.pages = IF Truthy(result.record_cursor)
                                               THEN @ + 1 ELSE @]
                    /\ pc' = "bulk_next"
                    /\ UNCHANGED outcome
               ELSE \* line 101: raise_for_status
                    /\ Raise("HTTPError")
                    /\ UNCHANGED bulk
    /\ UNCHANGED creator_hook

\* Operator lines 59-62: the next job, created with the cursor just read.
BulkNext ==
    /\ pc = "bulk_next"
    /\ UNCHANGED <<ops, api, pag, inventoryVars>>
    /\ \E access \in AccessTokens, lat \in Latency, ok \in BOOLEAN :
        LET g == HeadersC(access, lat) IN
        /\ token_c' = g.token
        /\ now' = g.at
        /\ last_c' = CallRecordC(token_c, now, g)
        /\ events' = Append(events, CreateEvent(g, bulk.jobs + 1, bulk.cursor))
        /\ IF ok
           THEN /\ bulk' = [bulk EXCEPT !.job = Job(bulk.jobs + 1, bulk.cursor),
                                 !.jobs = @ + 1, !.download = @ + 1]
                /\ pc' = "bulk_loop"
                /\ UNCHANGED outcome
           ELSE /\ Raise("HTTPError")
                /\ UNCHANGED bulk
    /\ UNCHANGED creator_hook


\* paginate (operator lines 28-31): the locals.  The first use of the
\* property creator_hook is in the loop (line 34).
PaginateBegin ==
    /\ pc = "idle"
    /\ api = "creator"
    /\ ops = 0
    /\ ops < MaxOps
    /\ ops' = ops + 1
    /\ pag' = InitPag
    /\ pc' = "pg_loop"
    /\ outcome' = "none"
    /\ events' = <<>>
    /\ UNCHANGED <<now, api, token_c, last_c, creator_hook, bulk, inventoryVars>>

\* One turn of the loop of paginate (operator lines 32-44), or the return
\* (line 45): get_view, the test for code 3100, the append, the sleep.
PgLoop ==
    /\ pc = "pg_loop"
    /\ UNCHANGED <<ops, api, creator_hook, bulk, inventoryVars>>
    /\ IF ~WhileStatusCode(pag.status)
       THEN /\ pc' = "idle"
            /\ outcome' = "returned"
            /\ UNCHANGED <<now, events, token_c, last_c, pag>>
       ELSE IF creator_hook = None
       THEN \* operator line 25: ZohoCreatorHook() without conn_id
            /\ Raise("TypeError")
            /\ UNCHANGED <<now, events, token_c, last_c, pag>>
       ELSE \E access \in AccessTokens, lat \in Latency, r \in ViewResponses :
            LET g == HeadersC(access, lat)
                sent == Append(events, ViewEv(pag.start, g.token.token, r))
            IN
            /\ r.code # NoDataCode => pag.views < MaxViews
            /\ token_c' = g.token
            /\ last_c' = CallRecordC(token_c, now, g)
            /\ IF IsNoData(r.code)
               THEN \* break, return df
                    /\ events' = sent
                    /\ now' = g.at
                    /\ pc' = "idle"
                    /\ outcome' = "returned"
                    /\ UNCHANGED pag
               ELSE /\ events' = Append(sent, PauseEv(PaginateSleepTenths))
                    /\ now' = g.at + ((PaginateSleepTenths + 9) \div 10)
                    /\ pag' = [df |-> pag.df \o r.data,
                               status |-> r.code,
                               start |-> pag.start + StartStep,
                               views |-> pag.views + 1]
                    /\ UNCHANGED <<pc, outcome>>

----------------------------------------------------------------------------
(* The Inventory hook's operations. *)

\* The token store is written by its owner, not by the hook, between two
\* operations of the hook: a new token, expiring some time after it is written.
StoreWrite ==
    /\ api = "inventory"
    /\ pc = "idle"
    /\ ops < MaxOps
    /\ \E name \in StoreTokens \ {store.token}, d \in FreshLifetimes :
        store' = [token |-> name, expires_at |-> now + d]
    \* the record of the operation that ended is dropped
    /\ outcome' = "none"
    /\ events' = <<>>
    /\ call' = NoCall
    /\ req' = NoRequest
    /\ last_i' = NoCallI
    /\ UNCHANGED <<now, pc, ops, api, creatorVars, token_i>>

\* A caller calls ZohoInventoryHook.get_token() directly.
CallInventoryGetToken ==
    /\ pc = "idle"
    /\ api = "inventory"
    /\ ops < MaxOps
    /\ ops' = ops + 1
    /\ LET g == InventoryGetToken(token_i, now, store) IN
        /\ token_i' = g.token
        /\ last_i' = CallRecordI(token_i, now, store, g)
    /\ outcome' = "returned"
    /\ events' = <<>>
    /\ call' = [NoCall EXCEPT !.op = "get_token"]
    /\ req' = NoRequest
    /\ UNCHANGED <<now, pc, api, store, creatorVars>>

\* A caller calls make_request directly.
CallMakeRequest ==
    /\ pc = "idle"
    /\ api = "inventory"
    /\ ops < MaxOps
    /\ ops' = ops + 1
    /\ \E a \in DirectCalls :
        /\ call' = [NoCall EXCEPT !.op = "make_request", !.args = a,
                                   !.org_id = a.org_id]
        /\ req' = [args |-> a, attempt |-> 1, result |-> NoResponse]
    /\ pc' = "mr_attempt"
    /\ events' = <<>>
    /\ outcome' = "none"
    /\ UNCHANGED <<now, api, token_i, last_i, store, creatorVars>>

\* A caller calls invoice (lines 154-211): a ValueError, or make_request.
CallInvoice ==
    /\ pc = "idle"
    /\ api = "inventory"
    /\ ops < MaxOps
    /\ ops' = ops + 1
    /\ \E o \in OrgIds, id \in InvoiceIds, u \in Updates, mode \in InvoiceModes :
        LET b == Invoice(o, id, u, mode) IN
        /\ call' = [op |-> "invoice", args |-> b.args, org_id |-> o,
                    mode |-> mode, invoice_id |-> id, updates |-> u]
        /\ IF b.raised # None
           THEN /\ Raise(b.raised)
                /\ req' = NoRequest
           ELSE /\ req' = [args |-> b.args, attempt |-> 1, result |-> NoResponse]
                /\ pc' = "mr_attempt"
                /\ outcome' = "none"
    /\ events' = <<>>
    /\ UNCHANGED <<now, api, token_i, last_i, store, creatorVars>>

\* What a caller's call of an entity method leaves: the exception of the
\* method, or the first attempt of its make_request call.
CallBuilt(b) ==
    /\ IF b.raised # None
       THEN /\ Raise(b.raised)
            /\ req' = NoRequest
       ELSE /\ req' = [args |-> b.args, attempt |-> 1, result |-> NoResponse]
            /\ pc' = "mr_attempt"
            /\ outcome' = "none"
    /\ events' = <<>>
    /\ UNCHANGED <<now, api, token_i, last_i, store, creatorVars>>

\* A caller calls item (lines 249-285).  In call, invoice_id holds the id
\* argument of the method called, whatever its name.
CallItem ==
    /\ pc = "idle"
    /\ api = "inventory"
    /\ ops < MaxOps
    /\ ops' = ops + 1
    /\ \E o \in OrgIds, id \in ItemIds, u \in Updates, mode \in ItemModes :
        LET b == Item(o, mode, id, u) IN
        /\ call' = [op |-> "item", args |-> b.args, org_id |-> o,
                    mode |-> mode, invoice_id |-> id, updates |-> u]
        /\ CallBuilt(b)

\* A caller calls post_item_status (lines 287-311).
CallPostItemStatus ==
    /\ pc = "idle"
    /\ api = "inventory"
    /\ ops < MaxOps
    /\ ops' = ops + 1
    /\ \E o \in OrgIds, mode \in StatusModes :
        LET b == PostItemStatus(o, "it1", mode) IN
        /\ call' = [op |-> "post_item_status", args |-> b.args, org_id |-> o,
                    mode |-> mode, invoice_id |-> "it1", updates |-> None]
        /\ CallBuilt(b)

\* A caller calls get_pdf (lines 355-373); mode holds its method argument.
CallGetPdf ==
    /\ pc = "idle"
    /\ api = "inventory"
    /\ ops < MaxOps
    /\ ops' = ops + 1
    /\ \E o \in OrgIds, method \in PdfMethods :
        LET b == GetPdf(o, "inv1", method) IN
        /\ call' = [op |-> "get_pdf", args |-> b.args, org_id |-> o,
                    mode |-> method, invoice_id |-> "inv1", updates |-> None]
        /\ CallBuilt(b)

\* An attempt of make_request ended in an exception: tenacity stops, or waits.
Retry(evs, n, what) ==
    /\ events' = Append(evs, RaiseEv(n, what))
    /\ IF StopAfterAttempt(n)
       THEN /\ pc' = "idle"
            /\ outcome' = "RetryError"
       ELSE /\ pc' = "mr_wait"
            /\ UNCHANGED outcome

\* One attempt: the body of make_request (lines 117-152).
MrAttempt ==
    /\ pc = "mr_attempt"
    /\ LET a == req.args
           n == req.attempt
           u == IF a.url = NoneUrl THEN MakeRequestGetUrl(a.method, a.unit)
                ELSE Url(None, a.url)
           started == Append(events, AttemptEv(n))
       IN
       IF u.raised # None
       THEN /\ Retry(started, n, u.raised)
            /\ UNCHANGED <<token_i, last_i, req>>
       ELSE \E answered \in BOOLEAN, response \in Responses :
            LET g == InventoryGetToken(token_i, now, store)
                sent == Append(started,
                          RequestEv(n, g.token.token, Upper(a.mode), u.url,
                                    MakeRequestParams(a.org_id, a.page, a.unit, a.params),
                                    StreamState(a.mode, a.method)))
                h == HandleResponse(a.method, response)
            IN
            /\ token_i' = g.token
            /\ last_i' = CallRecordI(token_i, now, store, g)
            /\ IF ~answered
               THEN \* requests.request raises: no answer came
                    /\ response = [http_ok |-> TRUE, code |-> 0]
                    /\ Retry(sent, n, "ConnectionError")
                    /\ UNCHANGED req
               ELSE IF h.raised # None
               THEN \* an attempt that raises leaves no result
                    /\ Retry(sent, n, h.raised)
                    /\ UNCHANGED req
               ELSE /\ events' = sent
                    /\ req' = [req EXCEPT !.result = h.result]
                    /\ pc' = "idle"
                    /\ outcome' = "returned"
    /\ UNCHANGED <<now, ops, api, store, call, creatorVars>>

\* wait_fixed between two attempts.
MrWait ==
    /\ pc = "mr_wait"
    /\ now' = now + WaitFixed
    /\ events' = Append(events, SleepEv(WaitFixed))
    /\ req' = [req EXCEPT !.attempt = @ + 1]
    /\ pc' = "mr_attempt"
    /\ UNCHANGED <<outcome, ops, api, token_i, last_i, store, call, creatorVars>>

Next ==
    \/ Tick
    \/ CallCreatorGetToken
    \/ BulkBegin
    \/ BulkLoop
    \/ WfCheck
    \/ WfWhile
    \/ WfDownload
    \/ BulkNext
    \/ PaginateBegin
    \/ PgLoop
    \/ StoreWrite
    \/ CallInventoryGetToken
    \/ CallMakeRequest
    \/ CallInvoice
    \/ CallItem
    \/ CallPostItemStatus
    \/ CallGetPdf
    \/ MrAttempt
    \/ MrWait

Spec == Init /\ [][Next]_vars

\* The steps of download_bulk_data are steps of one running Python call:
\* a step that can be taken is taken.
BulkStep == BulkLoop \/ WfCheck \/ WfWhile \/ WfDownload \/ BulkNext
LiveSpec == Spec /\ WF_vars(BulkStep)

----------------------------------------------------------------------------
(* The claims. *)

Positions == DOMAIN events
EventsOf(kind) == {i \in Positions : events[i].ev = kind}

\* C1: download_workflow stops polling once it observes a terminal job
\* status (Completed, or a failure status): after check_bulk_job returned a
\* terminal status no further status check of that job is made.
TerminalStatuses == {"Completed", "Failed"}
C3_AuthFailureIsNeverReturned ==
    (api = "inventory" /\ pc = "idle" /\ outcome = "returned"
        /\ call.op \in {"make_request", "invoice"})
        => req.result.response.code \notin {2, 57}

\* C4: one call of make_request sends at most 3 requests, with one fixed
\* wait of 300 seconds between consecutive attempts; when the third attempt
\* fails too the call ends with an error to the caller, and no fourth
\* request is sent.
C4_AtMostThreeAttempts ==
    api = "inventory" =>
        /\ Cardinality(EventsOf("attempt")) <= 3
        /\ Cardinality(EventsOf("request")) <= 3
        /\ \A i \in EventsOf("request") :
               Cardinality({k \in EventsOf("attempt") : k < i}) = events[i].n
        /\ \A i, j \in EventsOf("attempt") :
               (i < j /\ ~\E k \in EventsOf("attempt") : i < k /\ k < j)
                   => /\ Cardinality({k \in EventsOf("sleep") : i < k /\ k < j}) = 1
                      /\ \A k \in EventsOf("sleep") : events[k].secs = 300
        /\ Cardinality(EventsOf("raise")) = 3
               => pc = "idle" /\ outcome = "RetryError"
        /\ outcome = "RetryError" => Cardinality(EventsOf("raise")) = 3

C4_Witness ==
    /\ api = "inventory"
    /\ pc = "idle"
    /\ outcome = "RetryError"
    /\ Cardinality(EventsOf("request")) = 3
    /\ Cardinality(EventsOf("sleep")) = 2

\* C5: ZohoCreatorHook.get_token sends a token request exactly when the
\* cached token is more than 3600 seconds old (the empty token counts as
\* old); otherwise it returns the cached token unchanged and sends no
\* request.  After a refresh the cache holds the new access token with
\* created_at set to the time of the refresh.
C5_CreatorTokenRefresh ==
    last_c.called =>
        /\ last_c.posted <=> (last_c.at - last_c.before.created_at > 3600)
        /\ last_c.before.token = None => last_c.posted
        /\ ~last_c.posted => last_c.returned = last_c.before
        /\ last_c.posted =>
               /\ last_c.returned.token \in AccessTokens
               /\ last_c.returned.created_at = last_c.done_at
        /\ token_c = last_c.returned

C5_Witness ==
    /\ last_c.called
    /\ ~last_c.posted
    /\ last_c.at - last_c.before.created_at = 3600
    /\ last_c.before.token # None

\* C6: ZohoInventoryHook.get_token returns the cached token without
\* reloading exactly when the current time plus 300 seconds is strictly
\* before the cached expires_at; in every other case, the initial state
\* included, it reloads the token from the token store and replaces the cache
\* with it.
C6_InventoryTokenReload ==
    last_i.called =>
        /\ ~last_i.loaded <=> (last_i.at + 300 < last_i.before.expires_at)
        /\ last_i.before = InitTokenI => last_i.loaded
        /\ ~last_i.loaded => last_i.returned = last_i.before
        /\ last_i.loaded => last_i.returned = last_i.stored
        /\ token_i = last_i.returned

C6_Witness ==
    /\ last_i.called
    /\ last_i.loaded
    /\ last_i.before.token # None
    /\ last_i.at + 300 = last_i.before.expires_at
    /\ last_i.stored # last_i.before

LastDownloadBefore(j) ==
    CHOOSE i \in EventsOf("download") :
        i < j /\ \A k \in EventsOf("download") : k < j => k <= i
C9_StandardRequestIsSent ==
    (/\ api = "inventory"
     /\ call.op = "make_request"
     /\ call.args.url = NoneUrl
     /\ call.args.unit = None
     /\ call.args.params = NoneParams
     /\ call.args.method \in ZOHO_API_METHODS
     /\ pc = "idle")
        => \E i \in EventsOf("request") :
               /\ events[i].req.url = <<Endpoint, call.args.method>>
               /\ events[i].req.params =
                      {<<"organization_id", call.args.org_id>>,
                       <<"page", call.args.page>>, <<"per_page", 200>>,
                       <<"sort_column", "last_modified_time">>,
                       <<"sort_order", "D">>}

\* C10: invoice maps every defined mode to one HTTP verb and URL: update ->
\* PUT invoices/{id}; get -> GET invoices/{id}; create -> POST invoices;
\* draft -> POST invoices/{id}/status/draft; submit -> POST
\* invoices/{id}/submit; approve -> POST invoices/{id}/approve; void -> POST
\* invoices/{id}/status/void; sent -> POST invoices/{id}/status/sent;
\* delete -> DELETE invoices/{id}; organization_id is in the params of every
\* one of them.
InvoiceTable(id) ==
    [update |-> <<"PUT", <<"invoices", id>>>>,
     get |-> <<"GET", <<"invoices", id>>>>,
     create |-> <<"POST", <<"invoices">>>>,
     draft |-> <<"POST", <<"invoices", id, "status", "draft">>>>,
     submit |-> <<"POST", <<"invoices", id, "submit">>>>,
     approve |-> <<"POST", <<"invoices", id, "approve">>>>,
     void |-> <<"POST", <<"invoices", id, "status", "void">>>>,
     sent |-> <<"POST", <<"invoices", id, "status", "sent">>>>,
     delete |-> <<"DELETE", <<"invoices", id>>>>]
C10_InvoiceModes ==
    (api = "inventory" /\ call.op = "invoice"
        /\ call.mode \in DOMAIN InvoiceTable(call.invoice_id)
        /\ (call.mode = "create" \/ call.invoice_id # None))
        => /\ outcome # "ValueError"
           /\ req.attempt >= 1
           /\ Upper(req.args.mode) = InvoiceTable(call.invoice_id)[call.mode][1]
           /\ req.args.url =
                  <<Endpoint>> \o InvoiceTable(call.invoice_id)[call.mode][2]
           /\ <<"organization_id", call.org_id>> \in req.args.params
           /\ \A i \in EventsOf("request") :
                  /\ events[i].req.verb = InvoiceTable(call.invoice_id)[call.mode][1]
                  /\ events[i].req.url =
                         <<Endpoint>> \o InvoiceTable(call.invoice_id)[call.mode][2]
                  /\ <<"organization_id", call.org_id>> \in events[i].req.params

C10_Witness ==
    /\ api = "inventory"
    /\ call.op = "invoice"
    /\ call.mode = "void"
    /\ outcome = "returned"
    /\ EventsOf("request") # {}

\* C11: make_request retries only after a response that indicates an auth
\* failure: a failure of any other kind (a method name rejected while the url
\* is built, before any request is sent) goes to the caller on the first
\* attempt, with no 300 second wait and no further attempt after it.
C11_RetriesOnlyOnAuthFailure ==
    api = "inventory" =>
        \A i \in EventsOf("raise") :
            events[i].what # "HTTPError"
                => /\ i = Len(events)
                   /\ pc = "idle"
                   /\ events[i].n = 1

\* C12: every API request of either hook carries the token get_token returned
\* when the request was sent, and no request is sent with the empty token
\* (None): the first call of a hook acquires a token before its request.
RequestKinds == {"create", "check", "download", "view", "request"}
C12_RequestsCarryAToken ==
    \A i \in Positions :
        events[i].ev \in RequestKinds =>
            /\ events[i].token # None
            /\ events[i].token \in AccessTokens \cup StoreTokens
            /\ i = Len(events) =>
                   /\ api = "creator" =>
                          /\ last_c.called
                          /\ events[i].token = last_c.returned.token
                          /\ events[i].token = token_c.token
                   /\ api = "inventory" =>
                          /\ last_i.called
                          /\ events[i].token = last_i.returned.token
                          /\ events[i].token = token_i.token

C12_Witness ==
    /\ api = "creator"
    /\ events # <<>>
    /\ events[Len(events)].ev = "create"
    /\ last_c.called
    /\ last_c.before.token = None
    /\ events[Len(events)].token \in AccessTokens

C14_BulkExportTerminates ==
    [](outcome \notin {"HTTPError", "AttributeError"})
        => ((api = "creator" /\ pc = "bulk_loop")
                ~> (pc = "idle" /\ outcome = "returned"))

\* C15: invoice and item raise ValueError when the mode is one that requires
\* an id (invoice: update, get, draft, submit, approve, void, sent, delete;
\* item: get, delete, update) and no id is given; no token is acquired and no
\* request is sent in that case.
ModesWithId ==
    [invoice |-> {"update", "get", "draft", "submit", "approve", "void",
                  "sent", "delete"},
     item |-> {"get", "delete", "update"}]
C15_IdRequired ==
    [][(/\ api = "inventory"
        /\ pc = "idle"
        /\ ops' = ops + 1
        /\ call'.op \in DOMAIN ModesWithId
        /\ call'.mode \in ModesWithId[call'.op]
        /\ call'.invoice_id = None)
          => /\ pc' = "idle"
             /\ outcome' = "ValueError"
             /\ events' = <<>>
             /\ req' = NoRequest
             /\ token_i' = token_i
             /\ last_i' = last_i]_vars

C15_Witness ==
    /\ api = "inventory"
    /\ call.op = "item"
    /\ call.mode = "update"
    /\ call.invoice_id = None
    /\ pc = "idle"
    /\ outcome = "ValueError"
    /\ events = <<>>

\* C16: invoice, item, post_item_status and get_pdf reject a mode or method
\* outside their defined set with a ValueError raised to the caller; no
\* request is sent and the token cache is left as it was.
DefinedModes ==
    [invoice |-> {"update", "get", "create", "draft", "submit", "approve",
                  "void", "sent", "delete"},
     item |-> {"create", "get", "delete", "update"},
     post_item_status |-> {"active", "Active", "inactive", "INACTIVE"},
     get_pdf |-> {"invoice", "creditnote"}]
C16_UndefinedModeRejected ==
    [][(/\ api = "inventory"
        /\ pc = "idle"
        /\ ops' = ops + 1
        /\ call'.op \in DOMAIN DefinedModes
        /\ call'.mode \notin DefinedModes[call'.op])
          => /\ pc' = "idle"
             /\ outcome' = "ValueError"
             /\ events' = <<>>
             /\ req' = NoRequest
             /\ token_i' = token_i
             /\ last_i' = last_i]_vars

\* C17: paginate requests the view at the offsets 0, 200, 400, ... in
\* increasing order, appends the data of every response whose code is not
\* 3100 and stops at the first response with code 3100: the data of that
\* response is not appended and no request follows it.
RECURSIVE ViewRows(_)
ViewRows(evs) ==
    IF evs = <<>> THEN <<>>
    ELSE LET e == evs[Len(evs)]
             front == ViewRows(SubSeq(evs, 1, Len(evs) - 1))
         IN IF e.ev = "view" /\ e.code # 3100 THEN front \o e.data ELSE front
C17_PaginateOffsets ==
    (api = "creator" /\ EventsOf("view") # {}) =>
        /\ \A i \in EventsOf("view") :
               /\ events[i].start = 200 * Cardinality({k \in EventsOf("view") : k < i})
               /\ events[i].params = {<<"from", events[i].start>>, <<"limit", 200>>}
               /\ events[i].code = 3100
                      => /\ i = Len(events)
                         /\ pc = "idle"
                         /\ outcome = "returned"
               /\ events[i].code # 3100
                      => /\ i < Len(events)
                         /\ events[i + 1] = [ev |-> "pause", tenths |-> 35]
        /\ pag.df = ViewRows(events)

C17_Witness ==
    /\ api = "creator"
    /\ pc = "idle"
    /\ outcome = "returned"
    /\ Cardinality(EventsOf("view")) = 3
    /\ events[Len(events)].ev = "view"
    /\ events[Len(events)].code = 3100
    /\ Len(pag.df) = 2

\* C18: the result of download_bulk_data holds every row of every page
\* downloaded during the run and nothing else, a row identical to an earlier
\* row removed.
RECURSIVE DownloadedRows(_)
DownloadedRows(evs) ==
    IF evs = <<>> THEN <<>>
    ELSE LET e == evs[Len(evs)]
             front == DownloadedRows(SubSeq(evs, 1, Len(evs) - 1))
         IN IF e.ev = "download" THEN front \o e.df ELSE front
FirstAt(rows, r) == CHOOSE i \in DOMAIN rows :
    rows[i] = r /\ \A k \in DOMAIN rows : rows[k] = r => i <= k
C21_ReturnedTokenIsFresh ==
    last_i.called => last_i.returned.expires_at > last_i.at + 300

\* C22: a token the Inventory API has just rejected as unauthorized (code 2
\* or 57) is not sent again on the retry attempts of the same make_request
\* call: the request of the next attempt carries another, newly acquired
\* token.
C22_RejectedTokenIsNotResent ==
    api = "inventory" =>
        \A i, j \in EventsOf("request") :
            (/\ events[j].n = events[i].n + 1
             /\ \E k \in EventsOf("raise") :
                    events[k].n = events[i].n /\ events[k].what = "HTTPError")
                => events[j].token # events[i].token
=============================================================================
